---------------------------- MODULE Spec2Model ----------------------------
(***************************************************************************)
(* Weekly fashion trend pipeline (fashion_trend_analytics/scripts/          *)
(* pipeline.py): text normalisation, controlled-vocabulary tagging,         *)
(* engagement proxy, optional sentiment, per-(week, tag) aggregation, the   *)
(* rising-tag ranking and the chart/report emission.                        *)
(*                                                                         *)
(* Representation.  A cell of the input frame is an option: NaN (pandas'    *)
(* missing value) or Some(v).  A text is a sequence of one-character        *)
(* strings, a word (token, hashtag, tag) is a string.  An ISO week label    *)
(* "%G-W%V" is the pair <<iso year, iso week>>; for four-digit years the    *)
(* string order of the labels is the order of the pairs.  Engagement is     *)
(* held in tenths (likes + 0.1 * views  ==  (10 * likes + views) / 10),     *)
(* sentiment in hundredths; a mean is the pair <<sum, count>>.              *)
(***************************************************************************)
EXTENDS Integers, Sequences, FiniteSets, TLC

NaN == <<>>
Some(v) == <<v>>
isna(x) == x = NaN
fillna(x, d) == IF isna(x) THEN d ELSE x[1]

(***************************************************************************)
(* Characters                                                              *)
(***************************************************************************)
LowerChars ==
    <<"a","b","c","d","e","f","g","h","i","j","k","l","m",
      "n","o","p","q","r","s","t","u","v","w","x","y","z">>
UpperChars ==
    <<"A","B","C","D","E","F","G","H","I","J","K","L","M",
      "N","O","P","Q","R","S","T","U","V","W","X","Y","Z">>
DigitChars == <<"0","1","2","3","4","5","6","7","8","9">>
Range(s) == {s[i] : i \in DOMAIN s}
IndexOf(s, c) == CHOOSE i \in DOMAIN s : s[i] = c
IsSpace(c) == c \in {" ", "\t", "\n"}
\* \w of the re module
WordCharSet == Range(LowerChars) \cup Range(UpperChars) \cup Range(DigitChars) \cup {"_"}
IsWordChar(c) == c \in WordCharSet
\* [a-z]
LowerSet == Range(LowerChars)
IsLowerAZ(c) == c \in LowerSet
\* str.lower on one character
UpperSet == Range(UpperChars)
LowerChar(c) == IF c \in UpperSet THEN LowerChars[IndexOf(UpperChars, c)] ELSE c
\* str.lower
Lower(s) == [i \in DOMAIN s |-> LowerChar(s[i])]

RECURSIVE Join(_)
\* the Python string of a character sequence
Join(cs) == IF cs = <<>> THEN "" ELSE cs[1] \o Join(Tail(cs))

NotSpace(c) == ~IsSpace(c)
\* the character classes \S, \w and [a-z]
InClass(c, cls) ==
    CASE cls = "S" -> NotSpace(c)
      [] cls = "w" -> IsWordChar(c)
      [] cls = "az" -> IsLowerAZ(c)

\* the first index >= i of s whose character is not of the class, Len(s) + 1 if none
RECURSIVE RunEnd(_, _, _)
RunEnd(s, i, cls) == IF i > Len(s) \/ ~InClass(s[i], cls) THEN i ELSE RunEnd(s, i + 1, cls)
StartsAt(s, i, lit) == i + Len(lit) - 1 <= Len(s) /\ SubSeq(s, i, i + Len(lit) - 1) = lit

(***************************************************************************)
(* Vocabulary                                                              *)
(***************************************************************************)
COLOR_WORDS == <<"red","blue","black","white","green","beige","pastel">>
STYLE_WORDS == <<"denim","linen","leather","knit","floral">>
MOOD_WORDS == <<"minimal","romantic","edgy","cozy","casual","bold","confident","lightweight","mood">>
TAG_WORDS == Range(COLOR_WORDS \o STYLE_WORDS \o MOOD_WORDS)

\* sorted(): Python's order on the vocabulary words
SortedWords ==
    <<"beige","black","blue","bold","casual","confident","cozy","denim","edgy",
      "floral","green","knit","leather","lightweight","linen","minimal","mood",
      "pastel","red","romantic","white">>
RECURSIVE SeqOfSet(_)
SeqOfSet(S) == IF S = {} THEN <<>> ELSE LET w == CHOOSE w \in S : TRUE IN <<w>> \o SeqOfSet(S \ {w})
\* sorted(S) for a set of words: the vocabulary words in Python's order; the
\* pipeline sorts no other word, and the place of one is left open
sorted(S) == SelectSeq(SortedWords, LAMBDA w : w \in S) \o SeqOfSet(S \ TAG_WORDS)

(***************************************************************************)
(* Text normaliser                                                         *)
(***************************************************************************)
\* URL_RE = http\S+|www\.\S+ : the end of the match starting at i, 0 if none
URL_RE(s, i) ==
    IF StartsAt(s, i, <<"h","t","t","p">>) /\ i + 4 <= Len(s) /\ NotSpace(s[i + 4])
    THEN RunEnd(s, i + 4, "S")
    ELSE IF StartsAt(s, i, <<"w","w","w",".">>) /\ i + 4 <= Len(s) /\ NotSpace(s[i + 4])
    THEN RunEnd(s, i + 4, "S")
    ELSE 0

RECURSIVE URL_RE_sub(_, _)
\* URL_RE.sub("", s), scanning from index i
URL_RE_sub(s, i) ==
    IF i > Len(s) THEN <<>>
    ELSE IF URL_RE(s, i) > 0 THEN URL_RE_sub(s, URL_RE(s, i))
    ELSE <<s[i]>> \o URL_RE_sub(s, i + 1)

RECURSIVE LStrip(_)
LStrip(s) == IF s # <<>> /\ IsSpace(s[1]) THEN LStrip(Tail(s)) ELSE s
RECURSIVE RStrip(_)
RStrip(s) == IF s # <<>> /\ IsSpace(s[Len(s)]) THEN RStrip(SubSeq(s, 1, Len(s) - 1)) ELSE s
\* str.strip
Strip(s) == RStrip(LStrip(s))

\* clean_text: s is a Python str or None (the option NaN)
clean_text(s) == Strip(URL_RE_sub(fillna(s, <<>>), 1))

\* Series.astype(str) on one cell: the missing value becomes the text "nan"
astype_str(x) == IF isna(x) THEN <<"n","a","n">> ELSE x[1]

RECURSIVE HASHTAG_RE_findall(_, _)
\* HASHTAG_RE = #(\w+) : findall from index i, the captured groups
HASHTAG_RE_findall(s, i) ==
    IF i > Len(s) THEN <<>>
    ELSE IF s[i] = "#" /\ i + 1 <= Len(s) /\ IsWordChar(s[i + 1])
    THEN <<SubSeq(s, i + 1, RunEnd(s, i + 1, "w") - 1)>>
         \o HASHTAG_RE_findall(s, RunEnd(s, i + 1, "w"))
    ELSE HASHTAG_RE_findall(s, i + 1)

\* extract_hashtags: [h.lower() for h in HASHTAG_RE.findall(s or "")]
extract_hashtags(s) ==
    LET hs == HASHTAG_RE_findall(fillna(s, <<>>), 1)
    IN  [k \in DOMAIN hs |-> Join(Lower(hs[k]))]

RECURSIVE findall_az(_, _)
\* Series.str.findall(r"[a-z]+") on one cell
findall_az(s, i) ==
    IF i > Len(s) THEN <<>>
    ELSE IF IsLowerAZ(s[i])
    THEN <<Join(SubSeq(s, i, RunEnd(s, i, "az") - 1))>> \o findall_az(s, RunEnd(s, i, "az"))
    ELSE findall_az(s, i + 1)

\* keyword_tags: sorted({t for t in tokens if t in TAG_WORDS})
keyword_tags(tokens) == sorted({t \in Range(tokens) : t \in TAG_WORDS})

(***************************************************************************)
(* Dates and ISO weeks                                                     *)
(***************************************************************************)
DigitSet == Range(DigitChars)
IsDigit(c) == c \in DigitSet
DigitVal(c) == IndexOf(DigitChars, c) - 1
RECURSIVE ToInt(_)
ToInt(ds) == IF ds = <<>> THEN 0 ELSE 10 * ToInt(SubSeq(ds, 1, Len(ds) - 1)) + DigitVal(ds[Len(ds)])

IsLeap(y) == (y % 4 = 0 /\ y % 100 # 0) \/ y % 400 = 0
DaysInMonth(y, m) ==
    IF m = 2 THEN (IF IsLeap(y) THEN 29 ELSE 28)
    ELSE IF m \in {4, 6, 9, 11} THEN 30 ELSE 31

NaT == NaN
\* pd.to_datetime(..., errors="coerce") on one cell holding a YYYY-MM-DD text:
\* the timestamp's calendar date, NaT for a missing or unparseable cell
to_datetime(x) ==
    IF isna(x) THEN NaT
    ELSE LET s == x[1] IN
         IF Len(s) = 10 /\ s[5] = "-" /\ s[8] = "-"
            /\ \A i \in {1, 2, 3, 4, 6, 7, 9, 10} : IsDigit(s[i])
         THEN LET y == ToInt(SubSeq(s, 1, 4))
                  m == ToInt(SubSeq(s, 6, 7))
                  d == ToInt(SubSeq(s, 9, 10))
              IN  IF y >= 1 /\ m \in 1..12 /\ d >= 1 /\ d <= DaysInMonth(y, m)
                  THEN Some([y |-> y, m |-> m, d |-> d])
                  ELSE NaT
         ELSE NaT

RECURSIVE DayOfYear(_, _, _)
DayOfYear(y, m, d) == IF m = 1 THEN d ELSE DaysInMonth(y, m - 1) + DayOfYear(y, m - 1, d)
\* days before 1 January of year y in the proleptic Gregorian calendar
DaysBeforeYear(y) == 365 * (y - 1) + ((y - 1) \div 4) - ((y - 1) \div 100) + ((y - 1) \div 400)
\* ISO weekday, Monday = 1 .. Sunday = 7 (0001-01-01 is a Monday)
IsoWeekday(y, m, d) == ((DaysBeforeYear(y) + DayOfYear(y, m, d) - 1) % 7) + 1
\* the number of ISO weeks of year y: 53 when 1 January is a Thursday, or a
\* Wednesday of a leap year
IsoWeeksInYear(y) ==
    IF IsoWeekday(y, 1, 1) = 4 \/ (IsLeap(y) /\ IsoWeekday(y, 1, 1) = 3) THEN 53 ELSE 52

\* safe_week: d.strftime("%G-W%V"), the label as <<%G, %V>>
safe_week(dt) ==
    LET wk == (DayOfYear(dt.y, dt.m, dt.d) - IsoWeekday(dt.y, dt.m, dt.d) + 10) \div 7
    IN  IF wk < 1 THEN <<dt.y - 1, IsoWeeksInYear(dt.y - 1)>>
        ELSE IF wk > IsoWeeksInYear(dt.y) THEN <<dt.y + 1, 1>>
        ELSE <<dt.y, wk>>

\* the order of the labels as strings
WeekLess(a, b) == a[1] < b[1] \/ (a[1] = b[1] /\ a[2] < b[2])

(***************************************************************************)
(* Sequence helpers                                                        *)
(***************************************************************************)
Min(a, b) == IF a < b THEN a ELSE b
Max(a, b) == IF a > b THEN a ELSE b
\* s[a:b] of Python, a and b possibly negative
PySlice(s, a, b) ==
    LET n == Len(s)
        lo == IF a < 0 THEN Max(n + a, 0) ELSE Min(a, n)
        hi == IF b < 0 THEN Max(n + b, 0) ELSE Min(b, n)
    IN  SubSeq(s, lo + 1, hi)
\* the sequence with its elements evaluated once
List(s) == SubSeq(s, 1, Len(s))
\* Series.head(k)
head(s, k) == SubSeq(s, 1, Min(k, Len(s)))
RECURSIVE Flatten(_)
Flatten(ss) == IF ss = <<>> THEN <<>> ELSE ss[1] \o Flatten(Tail(ss))
RECURSIVE SumSeq(_)
SumSeq(ns) == IF ns = <<>> THEN 0 ELSE ns[1] + SumSeq(Tail(ns))
RECURSIVE ProdSeq(_)
ProdSeq(ns) == IF ns = <<>> THEN 1 ELSE ns[1] * ProdSeq(Tail(ns))
RECURSIVE SortWeeks(_)
\* sorted() on a set of week labels
SortWeeks(S) ==
    IF S = {} THEN <<>>
    ELSE LET w == CHOOSE a \in S : \A b \in S : ~WeekLess(b, a)
         IN  <<w>> \o SortWeeks(S \ {w})

(***************************************************************************)
(* Input menus                                                             *)
(***************************************************************************)
not_a_date == <<"n","o","t","-","a","-","d","a","t","e">>
d0230 == <<"2","0","2","5","-","0","2","-","3","0">>
\* Sunday of 2024-W51
d1222 == <<"2","0","2","4","-","1","2","-","2","2">>
\* Sunday of 2024-W52
d1229 == <<"2","0","2","4","-","1","2","-","2","9">>
\* Monday and Sunday of 2025-W01
d1230 == <<"2","0","2","4","-","1","2","-","3","0">>
d0105 == <<"2","0","2","5","-","0","1","-","0","5">>
\* Monday of 2025-W02
d0106 == <<"2","0","2","5","-","0","1","-","0","6">>

t_red_linen == <<"#","R","e","d"," ","l","i","n","e","n">>
t_colors ==
    <<"r","e","d"," ","b","l","u","e"," ","b","l","a","c","k"," ",
      "w","h","i","t","e"," ","g","r","e","e","n"," ","b","e","i","g","e">>
t_mixed ==
    <<"#","r","e","d","i","s","h"," ","B","o","l","d","2","g","o"," ",
      "w","w","w","."," ","H","T","T","P",":","r","e","d">>
t_shop ==
    <<"c","o","z","y"," ","k","n","i","t"," ","h","t","t","p",":","/","/","s","h","o","p",
      ".","c","o","/","d","e","n","i","m"," ","#","E","d","g","y","_","l","o","o","k">>
t_url == <<"w","w","w",".","r","e","d",".","c","o","m">>

\* the date cells and the (text, likes, views) cells a posts file is built from
SampleDates == <<Some(not_a_date), Some(d1222), Some(d1229), Some(d1230), Some(d0105), Some(d0106)>>
SampleContents ==
    <<[text |-> NaN, likes |-> Some(10), views |-> Some(50)],
      [text |-> Some(t_red_linen), likes |-> NaN, views |-> Some(20)],
      [text |-> Some(t_colors), likes |-> Some(3), views |-> NaN]>>
SampleRow(k) ==
    LET c == SampleContents[((k - 1) % Len(SampleContents)) + 1]
    IN  [date |-> SampleDates[((k - 1) \div Len(SampleContents)) + 1],
         text |-> c.text, likes |-> c.likes, views |-> c.views]
NSample == Len(SampleDates) * Len(SampleContents)

\* the cells of the single-post files
AllDates == Range(SampleDates) \cup {NaN, Some(d0230)}
AllTexts == {NaN, Some(t_red_linen), Some(t_colors), Some(t_mixed), Some(t_shop), Some(t_url)}
AllLikes == {NaN, Some(0), Some(10)}
AllViews == {NaN, Some(20), Some(50)}

(***************************************************************************)
(* Per-post columns                                                        *)
(***************************************************************************)
\* the analyzer's compound score of a text, in hundredths.  The analyzer is
\* the external VADER lexicon scorer; what the pipeline relies on is that
\* it is a function of the text alone with values in [-1, 1] and that the
\* empty text scores 0.  The stand-in scores the mood words it finds.
polarity_scores(t) ==
    LET ws == findall_az(Lower(t), 1)
        pos == Cardinality({k \in DOMAIN ws : ws[k] \in {"cozy", "bold", "confident", "romantic"}})
        neg == Cardinality({k \in DOMAIN ws : ws[k] \in {"edgy"}})
    IN  Max(-100, Min(100, 50 * (pos - neg)))

\* df["text"].astype(str).apply(clean_text).str.lower() on one cell
text_clean_of(text) == Lower(clean_text(Some(astype_str(text))))
\* all_tags_of without the vocabulary test
all_tags_unfiltered(hashtags, kw_tags) == sorted(Range(hashtags \o kw_tags))
\* (hashtags + kw_tags).apply(lambda tags: sorted({t for t in tags if t in TAG_WORDS}))
all_tags_of(hashtags, kw_tags) == sorted({t \in Range(hashtags \o kw_tags) : t \in TAG_WORDS})
\* engagement_of with the views at full weight
engagement_unweighted(row) == 10 * fillna(row.likes, 0) + 10 * fillna(row.views, 0)
\* likes.fillna(0) + 0.1 * views.fillna(0), in tenths
engagement_of(row) == 10 * fillna(row.likes, 0) + fillna(row.views, 0)

\* lines 67-75: the columns main derives from one text cell
text_columns(text) ==
    LET text_clean == text_clean_of(text)
        hashtags == extract_hashtags(Some(text_clean))
        tokens == findall_az(text_clean, 1)
        kw_tags == keyword_tags(tokens)
    IN  [text_clean |-> text_clean, hashtags |-> hashtags, tokens |-> tokens,
         kw_tags |-> kw_tags, all_tags |-> all_tags_of(hashtags, kw_tags)]

\* The columns that depend on one cell alone, computed once per cell of the
\* menus: the text columns, the analyzer's score of text.fillna(""), the
\* parsed date and the week label of a parsed date.
TextColumns == [t \in AllTexts |-> text_columns(t)]
Compound == [t \in AllTexts |-> polarity_scores(fillna(t, <<>>))]
Parsed == [d \in AllDates |-> to_datetime(d)]
Week == [d \in AllDates |-> IF isna(to_datetime(d)) THEN NaN ELSE Some(safe_week(to_datetime(d)[1]))]

\* add_sentiment scoring 0 without the analyzer
add_sentiment_zero(row, have_vader) ==
    IF ~have_vader THEN Some(0) ELSE Some(Compound[row.text])
\* add_sentiment on one row: None without the analyzer, else the compound
\* score of text.fillna("")
add_sentiment(row, have_vader) ==
    IF ~have_vader THEN NaN ELSE Some(Compound[row.text])

\* the columns main adds to one surviving row (lines 67-84); row.cell is
\* the text of its date cell
Normalize(row, have_vader) ==
    LET tc == TextColumns[row.text]
    IN  [post_id |-> row.post_id, date |-> row.date, text |-> row.text,
         likes |-> row.likes, views |-> row.views,
         text_clean |-> tc.text_clean, hashtags |-> tc.hashtags, tokens |-> tc.tokens,
         kw_tags |-> tc.kw_tags, all_tags |-> tc.all_tags,
         engagement |-> engagement_of(row),
         sentiment |-> add_sentiment(row, have_vader),
         week |-> Week[row.cell][1]]

\* df["date"] = pd.to_datetime(df["date"], errors="coerce"); cell keeps the
\* text of the date cell
parse_dates(table) ==
    List([i \in DOMAIN table |->
            [post_id |-> table[i].post_id, date |-> Parsed[table[i].date], cell |-> table[i].date,
             text |-> table[i].text, likes |-> table[i].likes, views |-> table[i].views]])
\* dropna_date dropping nothing
dropna_nothing(frame) == frame
\* df.dropna(subset=["date"])
dropna_date(frame) == SelectSeq(frame, LAMBDA r : ~isna(r.date))
\* lines 62-64: the rows that survive
read_rows(table) == dropna_date(parse_dates(table))
\* df["date"].apply(safe_week) raises on a NaT date (NaT has no strftime)
week_raises(kept) == \E i \in DOMAIN kept : isna(kept[i].date)
\* the frame after line 84
build_df(table, have_vader) ==
    LET kept == read_rows(table)
    IN  List([i \in DOMAIN kept |-> Normalize(kept[i], have_vader)])

(***************************************************************************)
(* Weekly aggregator                                                       *)
(***************************************************************************)
\* explode_row keeping the first tag of a post alone
explode_row_first_tag(r) ==
    IF r.all_tags = <<>> THEN <<[r EXCEPT !.all_tags = NaN]>>
    ELSE <<[r EXCEPT !.all_tags = Some(r.all_tags[1])]>>
\* df.explode("all_tags") on one row: one row per tag, one NaN row for []
explode_row(r) ==
    IF r.all_tags = <<>> THEN <<[r EXCEPT !.all_tags = NaN]>>
    ELSE [k \in DOMAIN r.all_tags |-> [r EXCEPT !.all_tags = Some(r.all_tags[k])]]
\* df.explode("all_tags").dropna(subset=["all_tags"])
explode(df) ==
    SelectSeq(Flatten([i \in DOMAIN df |-> explode_row(df[i])]), LAMBDA r : ~isna(r.all_tags))

\* Series.mean of a numeric column: <<sum, count>> over the non-missing
\* values, NaN when there is none
mean(vals) ==
    LET present == SelectSeq(vals, LAMBDA v : ~isna(v))
    IN  IF present = <<>> THEN NaN
        ELSE Some(<<SumSeq([k \in DOMAIN present |-> present[k][1]]), Len(present)>>)
\* Series.count: the number of non-missing values
count(vals) == Len(SelectSeq(vals, LAMBDA v : ~isna(v)))

\* the agg of one (week, tag) group
agg_group(rows, wk, tag) ==
    LET g == SelectSeq(rows, LAMBDA r : r.week = wk /\ r.all_tags = Some(tag))
    IN  [week |-> wk, all_tags |-> tag,
         posts |-> count([k \in DOMAIN g |-> g[k].post_id]),
         avg_engagement |-> mean([k \in DOMAIN g |-> Some(g[k].engagement)]),
         avg_sentiment |-> mean([k \in DOMAIN g |-> g[k].sentiment])]

\* exploded.groupby(["week","all_tags"], as_index=False).agg(...): one row per
\* key that occurs, in sorted key order
groupby_agg(rows) ==
    LET weeks == SortWeeks({rows[k].week : k \in DOMAIN rows})
        tagsIn(wk) == sorted({rows[k].all_tags[1] : k \in {j \in DOMAIN rows : rows[j].week = wk}})
    IN  Flatten([w \in DOMAIN weeks |->
                    [t \in DOMAIN tagsIn(weeks[w]) |->
                        agg_group(rows, weeks[w], tagsIn(weeks[w])[t])]])

\* lines 86-94: the weekly summary of the frame
weekly_of(frame) == groupby_agg(explode(frame))

(***************************************************************************)
(* Trend ranker                                                            *)
(***************************************************************************)
\* the length of the rising list: head(5)
TopN == 5

\* weekly[weekly["week"].isin(weeks)].groupby("all_tags")["posts"].sum():
\* entries [tag, v] for the tags that occur in those weeks, in tag order
posts_sum(wkly, weeks) ==
    LET rows == SelectSeq(wkly, LAMBDA r : r.week \in Range(weeks))
        tags == sorted({rows[k].all_tags : k \in DOMAIN rows})
    IN  List([t \in DOMAIN tags |->
                [tag |-> tags[t],
                 v |-> SumSeq([k \in DOMAIN rows |->
                                 IF rows[k].all_tags = tags[t] THEN rows[k].posts ELSE 0])]])

Tags(entries) == {entries[k].tag : k \in DOMAIN entries}
Lookup(entries, tag) == entries[CHOOSE k \in DOMAIN entries : entries[k].tag = tag].v

\* delta_of without the fillna: NaN wherever either side lacks the tag
delta_without_fillna(recent_sum, prior_sum) ==
    LET in_recent == Tags(recent_sum)
        in_prior == Tags(prior_sum)
        tags == sorted(in_recent \cup in_prior)
    IN  List([t \in DOMAIN tags |->
                [tag |-> tags[t],
                 v |-> IF tags[t] \in in_recent /\ tags[t] \in in_prior
                       THEN Some(Lookup(recent_sum, tags[t]) - Lookup(prior_sum, tags[t]))
                       ELSE NaN]])

\* (recent_sum - prior_sum).fillna(recent_sum): the subtraction aligns the
\* two series on the union of their indexes and is NaN where either side
\* lacks the tag; fillna then fills from recent_sum where it has the tag
delta_of(recent_sum, prior_sum) ==
    LET in_recent == Tags(recent_sum)
        in_prior == Tags(prior_sum)
        tags == sorted(in_recent \cup in_prior)
    IN  List([t \in DOMAIN tags |->
                [tag |-> tags[t],
                 v |-> IF tags[t] \in in_recent /\ tags[t] \in in_prior
                       THEN Some(Lookup(recent_sum, tags[t]) - Lookup(prior_sum, tags[t]))
                       ELSE IF tags[t] \in in_recent
                       THEN Some(Lookup(recent_sum, tags[t]))
                       ELSE NaN]])

RECURSIVE sort_desc(_)
\* the non-missing entries in descending order of v; equal values keep their
\* index order (the sort of at most 21 tags is an insertion sort)
sort_desc(es) ==
    IF es = <<>> THEN <<>>
    ELSE LET i == CHOOSE i \in DOMAIN es :
                    /\ \A j \in DOMAIN es : es[j].v[1] <= es[i].v[1]
                    /\ \A j \in 1..(i - 1) : es[j].v[1] < es[i].v[1]
         IN  <<es[i]>> \o sort_desc(SubSeq(es, 1, i - 1) \o SubSeq(es, i + 1, Len(es)))

\* Series.sort_values(ascending=False): missing values last
sort_values(es) ==
    sort_desc(SelectSeq(es, LAMBDA e : ~isna(e.v))) \o SelectSeq(es, LAMBDA e : isna(e.v))

index(es) == [k \in DOMAIN es |-> es[k].tag]

\* sorted(weekly["week"].unique())
weeks_sorted_of(wkly) == SortWeeks({wkly[k].week : k \in DOMAIN wkly})
\* weeks_sorted[-2:]
recent_of(weeks_sorted) == PySlice(weeks_sorted, -2, Len(weeks_sorted))
\* weeks_sorted[-4:-2]
prior_of(weeks_sorted) == PySlice(weeks_sorted, -4, -2)

\* lines 101-106: the sorted delta series
trend_delta(wkly) ==
    LET weeks_sorted == weeks_sorted_of(wkly)
    IN  sort_values(delta_of(posts_sum(wkly, recent_of(weeks_sorted)),
                             posts_sum(wkly, prior_of(weeks_sorted))))

\* line 109, the except branch: tags by total posts, descending
fallback_rising(wkly) ==
    LET total == posts_sum(wkly, weeks_sorted_of(wkly))
    IN  index(head(sort_values(List([k \in DOMAIN total |-> [total[k] EXCEPT !.v = Some(@)]])), TopN))

\* whether a statement of the try block raises: slicing a short list and
\* aligning with an empty series do not raise
try_raises(wkly) == FALSE

\* lines 107-109: the rising list, dlt being the sorted delta series
rising_of(wkly, dlt) ==
    IF try_raises(wkly) THEN fallback_rising(wkly)
    ELSE index(head(dlt, TopN))

(***************************************************************************)
(* Report renderer                                                         *)
(***************************************************************************)
\* weekly.pivot(index="week", columns="all_tags", values="posts").fillna(0)
pivot(wkly, wk, tag) ==
    LET hit == {k \in DOMAIN wkly : wkly[k].week = wk /\ wkly[k].all_tags = tag}
    IN  IF hit = {} THEN 0 ELSE wkly[CHOOSE k \in hit : TRUE].posts

\* pivot[rising].plot(...): one line per rising tag over the sorted weeks
chart_of(wkly, rsng) ==
    LET weeks == weeks_sorted_of(wkly)
    IN  [weeks |-> weeks,
         lines |-> [k \in DOMAIN rsng |->
                      [tag |-> rsng[k],
                       posts |-> [w \in DOMAIN weeks |-> pivot(wkly, weeks[w], rsng[k])]]]]

\* weekly.groupby("all_tags")["avg_engagement"].mean() for one tag: the mean
\* of the per-week means, as the fraction <<num, den>> of tenths
tag_engagement(wkly, tag) ==
    LET rows == SelectSeq(wkly, LAMBDA r : r.all_tags = tag)
        D == ProdSeq(List([k \in DOMAIN rows |-> rows[k].avg_engagement[1][2]]))
    IN  <<SumSeq([k \in DOMAIN rows |->
                    rows[k].avg_engagement[1][1] * (D \div rows[k].avg_engagement[1][2])]),
          D * Len(rows)>>

RECURSIVE sort_frac_desc(_)
\* descending order of the fractions, equal values in index order
sort_frac_desc(es) ==
    IF es = <<>> THEN <<>>
    ELSE LET i == CHOOSE i \in DOMAIN es :
                    /\ \A j \in DOMAIN es : es[j].v[1] * es[i].v[2] <= es[i].v[1] * es[j].v[2]
                    /\ \A j \in 1..(i - 1) : es[j].v[1] * es[i].v[2] < es[i].v[1] * es[j].v[2]
         IN  <<es[i]>> \o sort_frac_desc(SubSeq(es, 1, i - 1) \o SubSeq(es, i + 1, Len(es)))

\* f"{val:.1f}": the number of tenths nearest to num / den, halves to even
format_1f(f) ==
    LET q == f[1] \div f[2]
        r == f[1] % f[2]
    IN  IF 2 * r > f[2] \/ (2 * r = f[2] /\ q % 2 = 1) THEN q + 1 ELSE q

\* lines 132-133
top_engage(wkly) ==
    LET tags == sorted({wkly[k].all_tags : k \in DOMAIN wkly})
    IN  head(sort_frac_desc(List([t \in DOMAIN tags |->
                                    [tag |-> tags[t], v |-> tag_engagement(wkly, tags[t])]])), TopN)

\* lines 127-140: what the report says
report_of(wkly, rsng, chart) ==
    LET top == top_engage(wkly)
    IN  [rising |-> IF rsng # <<>> THEN Some(rsng) ELSE NaN,
         top_engage |-> [k \in DOMAIN top |-> <<top[k].tag, format_1f(top[k].v)>>],
         chart_ref |-> ~isna(chart)]

\* the most rows of a posts file that is run once
MaxRows == 4
\* the most rows of a posts file that is edited and run again
MaxRerunRows == 2

(***************************************************************************)
(* State                                                                   *)
(***************************************************************************)
VARIABLES
    csv_file,     \* the rows of the file at args.input_csv, as pd.read_csv gives them
    pc,           \* "input": no run yet; "ran": main ran to its end; "error": it raised
    HAVE_VADER,   \* the analyzer probe of the last process
    raw,          \* the last run's pd.read_csv(args.input_csv)
    df,           \* the last run's frame after line 84
    weekly,       \* the last run's weekly summary
    delta,        \* the last run's sorted delta series
    rising,       \* the last run's rising list
    chart_path,   \* the last run's chart_path
    files,        \* the files under args.output_dir
    prev          \* the run before the last: its input and what it wrote

vars == <<csv_file, pc, HAVE_VADER, raw, df, weekly, delta, rising, chart_path, files, prev>>
locals == <<HAVE_VADER, raw, df, weekly, delta, rising, chart_path>>

NoFiles == [summary |-> NaN, chart |-> NaN, report |-> NaN]

Init ==
    /\ csv_file = <<>>
    /\ pc = "input"
    /\ HAVE_VADER = FALSE
    /\ raw = <<>>
    /\ df = <<>>
    /\ weekly = <<>>
    /\ delta = <<>>
    /\ rising = <<>>
    /\ chart_path = NaN
    /\ files = NoFiles
    /\ prev = NaN

\* the position in the menu of the last row of the file, 1 for the empty file
LastSample ==
    IF csv_file = <<>> THEN 1
    ELSE CHOOSE k \in 1..NSample :
            LET r == csv_file[Len(csv_file)] IN
            /\ SampleRow(k).date = r.date
            /\ SampleRow(k).text = r.text
            /\ SampleRow(k).likes = r.likes
            /\ SampleRow(k).views = r.views

\* A post is appended to the posts file before the first run.  No output
\* depends on the order of the rows (groupby sorts its keys), so the files
\* are enumerated with their rows in menu order.
AppendRow(k, max_rows) ==
    /\ pc = "input"
    /\ Len(csv_file) < max_rows
    /\ k >= LastSample
    /\ csv_file' = Append(csv_file,
                          [post_id |-> Some(Len(csv_file) + 1), date |-> SampleRow(k).date,
                           text |-> SampleRow(k).text, likes |-> SampleRow(k).likes,
                           views |-> SampleRow(k).views])
    /\ UNCHANGED <<pc, locals, files, prev>>

\* the rows whose date to_datetime cannot parse are taken out of the file
RemoveBadRows ==
    /\ pc # "input"
    /\ \E i \in DOMAIN csv_file : isna(Parsed[csv_file[i].date])
    /\ csv_file' = SelectSeq(csv_file, LAMBDA r : ~isna(Parsed[r.date]))
    /\ UNCHANGED <<pc, locals, files, prev>>

\* the text cell of every post of the file is emptied
ClearTexts ==
    /\ pc # "input"
    /\ \E i \in DOMAIN csv_file : ~isna(csv_file[i].text)
    /\ csv_file' = List([i \in DOMAIN csv_file |-> [csv_file[i] EXCEPT !.text = NaN]])
    /\ UNCHANGED <<pc, locals, files, prev>>

\* main(args), lines 58-146, in a process whose analyzer probe gave have_vader
main(have_vader) ==
    IF week_raises(read_rows(csv_file))
    THEN \* the uncaught exception ends the process before anything is written
         /\ pc' = "error"
         /\ HAVE_VADER' = have_vader
         /\ raw' = csv_file
         /\ prev' = NaN
         /\ UNCHANGED <<csv_file, df, weekly, delta, rising, chart_path, files>>
    ELSE /\ HAVE_VADER' = have_vader
         /\ raw' = csv_file
         /\ df' = build_df(csv_file, have_vader)
         /\ weekly' = weekly_of(df')
         /\ delta' = IF try_raises(weekly') THEN <<>> ELSE trend_delta(weekly')
         /\ rising' = rising_of(weekly', delta')
         /\ chart_path' = IF rising' # <<>> THEN Some("charts/top_trends.png") ELSE NaN
         /\ files' = [summary |-> Some(weekly'),
                      chart |-> IF rising' # <<>> THEN Some(chart_of(weekly', rising'))
                                ELSE files.chart,
                      report |-> Some(report_of(weekly', rising', chart_path'))]
         /\ prev' = IF pc = "ran"
                    THEN Some([raw |-> raw, HAVE_VADER |-> HAVE_VADER, weekly |-> weekly,
                               rising |-> rising, report |-> files.report[1]])
                    ELSE NaN
         /\ pc' = "ran"
         /\ UNCHANGED csv_file

\* a posts file is written, then the pipeline runs on it once
Next ==
    \/ \E k \in 1..NSample : AppendRow(k, MaxRows)
    \/ \E v \in BOOLEAN : pc = "input" /\ main(v)

Spec == Init /\ [][Next]_vars

\* a posts file is written; the pipeline runs on it any number of times, the
\* file being edited between runs
NextRuns ==
    \/ \E k \in 1..NSample : AppendRow(k, MaxRerunRows)
    \/ \E v \in BOOLEAN : main(v)
    \/ RemoveBadRows
    \/ ClearTexts

SpecRuns == Init /\ [][NextRuns]_vars

\* single-post files over every combination of cells
InitPost ==
    /\ csv_file \in {<<[post_id |-> Some(1), date |-> d, text |-> t, likes |-> l, views |-> v]>> :
                        d \in AllDates, t \in AllTexts, l \in AllLikes, v \in AllViews}
    /\ pc = "input"
    /\ HAVE_VADER = FALSE
    /\ raw = <<>>
    /\ df = <<>>
    /\ weekly = <<>>
    /\ delta = <<>>
    /\ rising = <<>>
    /\ chart_path = NaN
    /\ files = NoFiles
    /\ prev = NaN

NextPost == \E v \in BOOLEAN : main(v)

SpecPost == InitPost /\ [][NextPost]_vars

(***************************************************************************)
(* Properties                                                              *)
(***************************************************************************)
Ran == pc = "ran"
HasPrev == ~isna(prev)
Unparseable(cell) == isna(Parsed[cell])
WithoutBadRows(table) == SelectSeq(table, LAMBDA r : ~Unparseable(r.date))
WeeksIn(frame) == {frame[i].week : i \in DOMAIN frame}
TagsIn(wkly) == {wkly[k].all_tags : k \in DOMAIN wkly}
Tagged(frame) == UNION {Range(frame[i].all_tags) : i \in DOMAIN frame}
PostsWith(frame, wk, tag) ==
    {i \in DOMAIN frame : frame[i].week = wk /\ tag \in Range(frame[i].all_tags)}
CountTag(frame, tag) == Cardinality({i \in DOMAIN frame : tag \in Range(frame[i].all_tags)})
\* list holds the n greatest members of S under key (all of S when it has
\* fewer), each once, in descending order of key
IsTopBy(list, S, key(_), n) ==
    /\ Len(list) = Min(n, Cardinality(S))
    /\ Range(list) \subseteq S
    /\ \A a, b \in DOMAIN list : a < b => list[a] # list[b] /\ key(list[a]) >= key(list[b])
    /\ \A t \in S \ Range(list) : \A a \in DOMAIN list : key(list[a]) >= key(t)
\* the posts of a tag over a set of weeks of the weekly summary
PostsOver(wkly, tag, weeks) ==
    SumSeq(List([k \in DOMAIN wkly |->
                   IF wkly[k].all_tags = tag /\ wkly[k].week \in weeks THEN wkly[k].posts ELSE 0]))
\* the number of week labels of the summary that are not before wk
WeekRank(wkly, wk) == Cardinality({w \in WeeksIn(wkly) : ~WeekLess(w, wk)})
RecentWeeks(wkly) == {w \in WeeksIn(wkly) : WeekRank(wkly, w) <= 2}
PriorWeeks(wkly) == {w \in WeeksIn(wkly) : WeekRank(wkly, w) \in {3, 4}}

\* C1: the weekly summary has exactly one row for each (week, tag) such that
\* a surviving post of that week carries the tag, and the row's posts is the
\* number of those posts; the surviving posts are the rows with a parseable date
C1_WeeklyRows ==
    Ran =>
        /\ {df[i].post_id : i \in DOMAIN df}
             = {raw[j].post_id : j \in {j \in DOMAIN raw : ~Unparseable(raw[j].date)}}
        /\ {<<weekly[k].week, weekly[k].all_tags>> : k \in DOMAIN weekly}
             = UNION {{<<df[i].week, t>> : t \in Range(df[i].all_tags)} : i \in DOMAIN df}
        /\ \A a, b \in DOMAIN weekly :
              a # b => <<weekly[a].week, weekly[a].all_tags>> # <<weekly[b].week, weekly[b].all_tags>>
        /\ \A k \in DOMAIN weekly :
              weekly[k].posts = Cardinality(PostsWith(df, weekly[k].week, weekly[k].all_tags))
C1_Witness ==
    /\ Ran
    /\ Cardinality(WeeksIn(weekly)) >= 2
    /\ \E k \in DOMAIN weekly : weekly[k].posts >= 2
    /\ \E i \in DOMAIN df : Len(df[i].all_tags) >= 2
    /\ \E i \in DOMAIN df : df[i].all_tags = <<>>

\* C2: every tag of the weekly summary and of the rising list is a word of
\* TAG_WORDS, whatever hashtags and tokens the text holds
C2_VocabularyClosure ==
    Ran => /\ \A k \in DOMAIN weekly : weekly[k].all_tags \in TAG_WORDS
           /\ \A k \in DOMAIN rising : rising[k] \in TAG_WORDS
C2_Witness ==
    /\ Ran
    /\ weekly # <<>>
    /\ rising # <<>>
    /\ \E i \in DOMAIN df :
          /\ \E h \in DOMAIN df[i].hashtags : df[i].hashtags[h] \notin TAG_WORDS
          /\ \E t \in DOMAIN df[i].tokens : df[i].tokens[t] \notin TAG_WORDS
          /\ df[i].all_tags # <<>>

\* C3: no run ends in an error, and a run on the file without its
\* unparseable-date rows writes the same weekly summary, rising list and
\* report as the run on the file with them
C3_DateFiltering ==
    /\ pc # "error"
    /\ (Ran /\ HasPrev /\ raw = WithoutBadRows(prev[1].raw) /\ HAVE_VADER = prev[1].HAVE_VADER)
          => /\ weekly = prev[1].weekly
             /\ rising = prev[1].rising
             /\ files.report[1] = prev[1].report
C3_Witness ==
    /\ Ran
    /\ HasPrev
    /\ \E j \in DOMAIN prev[1].raw : Unparseable(prev[1].raw[j].date)
    /\ raw = WithoutBadRows(prev[1].raw)
    /\ HAVE_VADER = prev[1].HAVE_VADER
    /\ weekly # <<>>
    /\ rising # <<>>

\* C4: when the surviving posts lie in one ISO week, the rising list is the
\* (up to 5) tags with the most posts, in descending order of posts; the run
\* does not fail and the list is empty only if no post has a tag
C4_SingleWeekRanking ==
    /\ pc # "error"
    /\ (Ran /\ Cardinality(WeeksIn(df)) = 1)
          => /\ IsTopBy(rising, Tagged(df), LAMBDA t : CountTag(df, t), 5)
             /\ (rising = <<>> => Tagged(df) = {})
C4_Witness ==
    /\ Ran
    /\ Cardinality(WeeksIn(df)) = 1
    /\ Cardinality(Tagged(df)) > 5
    /\ \E t, u \in Tagged(df) : CountTag(df, t) > CountTag(df, u) /\ u \in Range(rising)
    /\ \E i \in DOMAIN df : df[i].all_tags = <<>>

\* C5: a run without the analyzer leaves every avg_sentiment absent, and two
\* runs on the same file, one with and one without the analyzer, agree on the
\* rows, the posts and avg_engagement values and the rising list
C5_SentimentSwitch ==
    /\ (Ran /\ ~HAVE_VADER) => \A k \in DOMAIN weekly : isna(weekly[k].avg_sentiment)
    /\ (Ran /\ HasPrev /\ prev[1].raw = raw /\ prev[1].HAVE_VADER # HAVE_VADER)
          => /\ Len(weekly) = Len(prev[1].weekly)
             /\ \A k \in DOMAIN weekly :
                   /\ weekly[k].week = prev[1].weekly[k].week
                   /\ weekly[k].all_tags = prev[1].weekly[k].all_tags
                   /\ weekly[k].posts = prev[1].weekly[k].posts
                   /\ weekly[k].avg_engagement = prev[1].weekly[k].avg_engagement
             /\ rising = prev[1].rising
C5_Witness ==
    /\ Ran
    /\ HasPrev
    /\ prev[1].raw = raw
    /\ prev[1].HAVE_VADER
    /\ ~HAVE_VADER
    /\ weekly # <<>>
    /\ \E k \in DOMAIN prev[1].weekly : ~isna(prev[1].weekly[k].avg_sentiment)
    /\ \E k \in DOMAIN weekly : weekly[k].posts >= 2

\* C6: the engagement of every surviving post, in tenths, is 10 * likes +
\* views with an absent likes or views counted as 0; it is not negative and
\* the run does not fail
C6_EngagementFormula ==
    /\ pc # "error"
    /\ Ran => \A i \in DOMAIN df :
                /\ df[i].engagement >= 0
                /\ df[i].engagement =
                     CASE isna(df[i].likes) /\ isna(df[i].views) -> 0
                       [] isna(df[i].likes) /\ ~isna(df[i].views) -> df[i].views[1]
                       [] ~isna(df[i].likes) /\ isna(df[i].views) -> 10 * df[i].likes[1]
                       [] OTHER -> 10 * df[i].likes[1] + df[i].views[1]
C6_Witness ==
    /\ Ran
    /\ \E i \in DOMAIN df : isna(df[i].likes) /\ df[i].views = Some(20) /\ df[i].engagement = 20

\* C7: every tag of the weekly summary gets delta = recent posts - prior
\* posts, a side without the tag counting 0, and the rising list is the first
\* 5 tags in descending order of that delta
C7_DeltaRanking ==
    Ran =>
        /\ \A t \in TagsIn(weekly) :
              \E k \in DOMAIN delta :
                 /\ delta[k].tag = t
                 /\ delta[k].v = Some(PostsOver(weekly, t, RecentWeeks(weekly))
                                      - PostsOver(weekly, t, PriorWeeks(weekly)))
        /\ IsTopBy(rising, TagsIn(weekly),
                   LAMBDA t : PostsOver(weekly, t, RecentWeeks(weekly))
                              - PostsOver(weekly, t, PriorWeeks(weekly)), 5)

\* C8: with fewer than 4 distinct weeks in the weekly summary no prior count
\* is subtracted: the ranking key of a tag is its recent posts, and the
\* rising list is the first 5 tags in descending order of recent posts
C8_ShortHistoryFallback ==
    (Ran /\ Cardinality(WeeksIn(weekly)) < 4) =>
        /\ \A k \in DOMAIN delta :
              ~isna(delta[k].v) =>
                  delta[k].v = Some(PostsOver(weekly, delta[k].tag, RecentWeeks(weekly)))
        /\ IsTopBy(rising, TagsIn(weekly),
                   LAMBDA t : PostsOver(weekly, t, RecentWeeks(weekly)), 5)

\* C9: after any sequence of runs, charts/top_trends.png is present only if
\* the rising list of the last run is not empty
C9_ChartOnlyIfRising ==
    Ran => (~isna(files.chart) => rising # <<>>)

\* C10: a post whose text is absent has the empty text_clean, no tokens, no
\* hashtags and no tags
C10_AbsentText ==
    Ran => \A i \in DOMAIN df :
              isna(df[i].text) =>
                  /\ df[i].text_clean = <<>>
                  /\ df[i].tokens = <<>>
                  /\ df[i].hashtags = <<>>
                  /\ df[i].all_tags = <<>>

============================================================================
